---- MODULE Spec2Model ----
\* rhq: the workspace of managed repositories (src/rhq-core/workspace.rs) and
\* the commands built on it (src/rhq/main.rs).
\*
\* Paths are sequences of path segments.  A path handed to the program is a
\* lexical path; Canonicalize resolves the symbolic links on it.  The marker
\* directories of a VCS (.git, .pijul) are not listed as directories of the
\* tree: they are children of a repository, which the walk prunes.
EXTENDS Integers, Sequences, FiniteSets, TLC

VARIABLES
    dirs,        \* file system: the real directories (canonical paths)
    links,       \* file system: symbolic link path -> the directory it points to
    vcsAt,       \* file system: directory -> VCS whose marker it holds, or NoVcs
    remoteAt,    \* file system: directory -> what reading its remote URL gives
    config,      \* Config: root_dir, include_dirs, exclude_patterns
    cacheFile,   \* the cache file on disk: Absent or the saved catalog
    cache,       \* Workspace.cache: Absent (not created yet) or the catalog
    root,        \* Workspace.root: NoPath or the root given with --root
    pc,          \* position of the running command
    cmd,         \* the running command and its arguments
    outcome,     \* how the last command ended
    log,         \* the workspace calls the running command has made
    fileAtStart, \* the cache file as it was when the running command started
    scan,        \* the last call of collect_repositories and its result
    lastOp,      \* the last workspace operation and its argument
    prev         \* the catalog as it was before the last workspace operation

vars == <<dirs, links, vcsAt, remoteAt, config, cacheFile, cache, root,
          pc, cmd, outcome, log, fileAtStart, scan, lastOp, prev>>

fsVars == <<dirs, links, vcsAt, remoteAt>>

----------------------------------------------------------------------------
\* Bounds of the model.

MaxRepos == 2       \* directories holding a VCS marker
MaxLinks == 1       \* symbolic links in the tree
MaxExcl == 1        \* configured exclude patterns
MaxScanDepth == 2   \* largest --depth tried
MaxCliRepos == 3    \* repositories on disk while commands create more

----------------------------------------------------------------------------
\* Paths.

NoPath == <<>>
NoVcs == "none"

W == <<"w">>
Universe ==
    { W, <<"w", "a">>, <<"w", "b">>, <<"w", "a", "a">>, <<"w", "a", "b">> }
Names == {"a", "b"}

Front(s) == SubSeq(s, 1, Len(s) - 1)
Last(s) == s[Len(s)]

VcsKinds == {"git", "pijul"}
RemoteReads == {"none", "url1", "url2", "ioerr"}

\* Path::canonicalize: the directory a lexical path leads to, NoPath when it
\* leads nowhere.
RECURSIVE Canonicalize(_)
Canonicalize(p) ==
    IF p = NoPath THEN NoPath
    ELSE IF Len(p) = 1 THEN (IF p \in dirs THEN p ELSE NoPath)
    ELSE LET d == Canonicalize(Front(p))
             q == d \o <<Last(p)>>
         IN  IF d = NoPath THEN NoPath
             ELSE IF q \in dirs THEN q
             ELSE IF q \in DOMAIN links /\ links[q] \in dirs THEN links[q]
             ELSE NoPath

\* vcs::detect_from_path: the VCS whose marker lies directly inside the path.
detect_from_path(p) ==
    LET c == Canonicalize(p)
    IN  IF c = NoPath THEN NoVcs ELSE vcsAt[c]

\* Vcs::get_remote_url: "none" (no remote configured), a URL, or "ioerr".
get_remote_url(p) == remoteAt[Canonicalize(p)]

\* glob::Pattern::matches on the segments of a path: "*" stands for any run of
\* segments, every other token for itself.
RECURSIVE Matches(_, _)
Matches(pat, s) ==
    IF pat = <<>> THEN s = <<>>
    ELSE IF Head(pat) = "*"
         THEN Matches(Tail(pat), s) \/ (s # <<>> /\ Matches(pat, Tail(s)))
         ELSE s # <<>> /\ Head(s) = Head(pat) /\ Matches(Tail(pat), Tail(s))

Patterns == { <<"w", "b">>, <<"*", "a">>, <<"w", "a", "*">> }

----------------------------------------------------------------------------
\* collect_repositories.

NoDepth == -1

\* filter without the test of the parent directory.
filter_no_parent_test(rt, p, excludes) ==
    \/ p = rt
    \/ /\ Canonicalize(p) # NoPath
       /\ \A ex \in excludes : ~Matches(ex, Canonicalize(p))

\* filter without the test of the exclude patterns.
filter_no_exclude_test(rt, p, excludes) ==
    \/ p = rt
    \/ /\ ~(Front(p) # NoPath /\ detect_from_path(Front(p)) # NoVcs)
       /\ Canonicalize(p) # NoPath

\* The closure `filter` given to filter_entry.
filter(rt, p, excludes) ==
    \/ p = rt
    \/ /\ ~(Front(p) # NoPath /\ detect_from_path(Front(p)) # NoVcs)
       /\ Canonicalize(p) # NoPath
       /\ \A ex \in excludes : ~Matches(ex, Canonicalize(p))

\* The entries of the directory a lexical path leads to, in the order `ord`
\* lists the names (read_dir promises no order).
Children(p, ord) ==
    LET c == Canonicalize(p)
        here(n) == (c \o <<n>>) \in (dirs \cup DOMAIN links)
    IN  SelectSeq(ord, here)

RECURSIVE Walk(_, _, _, _, _, _, _)
RECURSIVE WalkAll(_, _, _, _, _, _, _, _)

\* The walk with `filter` applied to each entry by itself: an entry it rejects
\* is left out, but the walk still descends into it.
Walk_without_pruning(rt, p, d, depth, excludes, anc, ord) ==
    IF Canonicalize(p) = NoPath \/ Canonicalize(p) \in anc THEN <<>>
    ELSE (IF filter(rt, p, excludes) THEN <<p>> ELSE <<>>) \o
         (IF depth # NoDepth /\ d >= depth THEN <<>>
          ELSE WalkAll(rt, p, Children(p, ord), d + 1, depth, excludes,
                       anc \cup {Canonicalize(p)}, ord))

\* WalkDir::new(root).follow_links(true).max_depth(depth) under
\* filter_entry(filter), errors dropped: the entries yielded, in walk order.
\* `anc` holds the directories of the entries above p; a link leading back to
\* one of them is a loop, which walkdir yields as an error.
Walk(rt, p, d, depth, excludes, anc, ord) ==
    IF Canonicalize(p) = NoPath \/ Canonicalize(p) \in anc THEN <<>>
    ELSE IF ~filter(rt, p, excludes) THEN <<>>
    ELSE <<p>> \o
         (IF depth # NoDepth /\ d >= depth THEN <<>>
          ELSE WalkAll(rt, p, Children(p, ord), d + 1, depth, excludes,
                       anc \cup {Canonicalize(p)}, ord))
WalkAll(rt, p, names, d, depth, excludes, anc, ord) ==
    IF names = <<>> THEN <<>>
    ELSE Walk(rt, p \o <<Head(names)>>, d, depth, excludes, anc, ord)
         \o WalkAll(rt, p, Tail(names), d, depth, excludes, anc, ord)

collect_repositories(rt, depth, excludes, ord) ==
    LET isRepo(p) == detect_from_path(p) # NoVcs
    IN  SelectSeq(Walk(rt, rt, 0, depth, excludes, {}, ord), isRepo)

----------------------------------------------------------------------------
\* Repository (its source is not part of the tree; modelled from the
\* specification of the data model).

NoRepo == [path |-> NoPath, vcs |-> NoVcs, remote |-> "none"]

\* Repository::new: the path is canonicalized; fails when it cannot be.
RepositoryNew(p, v, rem) ==
    [path |-> Canonicalize(p), vcs |-> v, remote |-> rem]

\* Repository::is_same_local: same canonicalized local path.
is_same_local(r1, r2) == r1.path = r2.path

\* Repository::path_string.
path_string(r) == r.path

\* Repository::name: the display name, the final segment of the path.
name(r) == Last(r.path)

\* The order of display names (str::cmp).
NameRank(n) == CASE n = "a" -> 1 [] n = "b" -> 2 [] OTHER -> 3

\* Repository::refresh: NoRepo when the path no longer holds a VCS marker,
\* else the entry with its VCS and remote read again.
refresh(r) ==
    LET v == detect_from_path(r.path)
    IN  IF v = NoVcs THEN NoRepo
        ELSE [path |-> r.path, vcs |-> v,
              remote |-> IF get_remote_url(r.path) = "ioerr" THEN r.remote
                         ELSE get_remote_url(r.path)]

\* Cache (its source is not part of the tree): `exists` is whether the cache
\* has been created, `repositories` the catalog.
Absent == [exists |-> FALSE, repositories |-> <<>>]
Loaded(repos) == [exists |-> TRUE, repositories |-> repos]

\* Cache::get_opt: None when the cache has not been created.
get_opt(c) == c

\* Cache::get_mut: the cache, created empty when it does not exist.
get_mut(c) == IF c.exists THEN c ELSE Loaded(<<>>)

----------------------------------------------------------------------------
\* Workspace.

\* Workspace::new_repository_from_path: [tag |-> "err"] (the error is
\* returned), [tag |-> "none"] (Ok(None)) or [tag |-> "some", repo |-> r].
new_repository_from_path(p) ==
    LET v == detect_from_path(p)
    IN  IF v = NoVcs THEN [tag |-> "none", repo |-> NoRepo]
        ELSE IF get_remote_url(p) = "ioerr" THEN [tag |-> "err", repo |-> NoRepo]
        ELSE IF get_remote_url(p) = "none" THEN [tag |-> "none", repo |-> NoRepo]
        ELSE [tag |-> "some", repo |-> RepositoryNew(p, v, get_remote_url(p))]

\* add_repository that pushes without looking for the same local repository.
add_repository_push(c, repo) == Loaded(Append(get_mut(c).repositories, repo))

\* Workspace::add_repository.
add_repository(c, repo) ==
    LET repos == get_mut(c).repositories
        same == { i \in 1..Len(repos) : is_same_local(repos[i], repo) }
    IN  IF same # {}
        THEN LET i == CHOOSE k \in same : \A j \in same : k <= j
             IN  Loaded([repos EXCEPT ![i] = repo])
        ELSE Loaded(Append(repos, repo))

\* Workspace::drop_invalid_repositories: the loop over the catalog, from
\* entry i on, new_repo being the entries kept so far.
RECURSIVE DropFrom(_, _, _, _)
DropFrom(repos, i, new_repo, excludes) ==
    IF i > Len(repos) THEN new_repo
    ELSE LET repo == refresh(repos[i])
         IN  IF repo = NoRepo THEN DropFrom(repos, i + 1, new_repo, excludes)
             ELSE IF \A ex \in excludes : ~Matches(ex, path_string(repo))
                  THEN DropFrom(repos, i + 1, Append(new_repo, repo), excludes)
                  ELSE DropFrom(repos, i + 1, new_repo, excludes)

\* drop_invalid_repositories that forgets the exclude patterns.
drop_invalid_no_excludes(c) ==
    Loaded(DropFrom(get_mut(c).repositories, 1, <<>>, {}))

drop_invalid_repositories(c) ==
    Loaded(DropFrom(get_mut(c).repositories, 1, <<>>, config.exclude_patterns))

\* slice::sort_by(|a, b| a.name().cmp(b.name())): a stable sort.  Insert puts
\* x behind every entry whose name is not greater.
\* Insert that puts x before the entries of equal name (an unstable sort).
RECURSIVE InsertBeforeEqual(_, _)
InsertBeforeEqual(sorted, x) ==
    IF sorted = <<>> THEN <<x>>
    ELSE IF NameRank(name(Last(sorted))) < NameRank(name(x))
         THEN Append(sorted, x)
         ELSE Append(InsertBeforeEqual(Front(sorted), x), Last(sorted))

RECURSIVE Insert(_, _)
Insert(sorted, x) ==
    IF sorted = <<>> THEN <<x>>
    ELSE IF NameRank(name(Last(sorted))) <= NameRank(name(x))
         THEN Append(sorted, x)
         ELSE Append(Insert(Front(sorted), x), Last(sorted))

RECURSIVE SortFrom(_, _, _)
SortFrom(repos, i, sorted) ==
    IF i > Len(repos) THEN sorted
    ELSE SortFrom(repos, i + 1, Insert(sorted, repos[i]))

\* Workspace::sort_repositories.
sort_repositories(c) == Loaded(SortFrom(get_mut(c).repositories, 1, <<>>))

\* Workspace::import_repositories: the loop over the paths that
\* collect_repositories returned, from path i on.  ok is FALSE when new_repository_from_path returned an error
\* (the loop is left by `?`); cache is the cache reached.
RECURSIVE ImportFrom(_, _, _)
ImportFrom(paths, i, c) ==
    IF i > Len(paths) THEN [ok |-> TRUE, cache |-> c]
    ELSE LET got == new_repository_from_path(paths[i])
         IN  IF got.tag = "err" THEN [ok |-> FALSE, cache |-> c]
             ELSE IF got.tag = "some"
                  THEN ImportFrom(paths, i + 1, add_repository(c, got.repo))
                  ELSE ImportFrom(paths, i + 1, c)

----------------------------------------------------------------------------
\* Initial states.

Orders == { <<"a", "b", "l">>, <<"l", "b", "a">> }
Depths == {NoDepth} \cup (0..MaxScanDepth)
ExcludeSets == { ex \in SUBSET Patterns : Cardinality(ex) <= MaxExcl }

\* The trees of the model: directories closed under parent, links lying in a
\* directory and pointing to a directory, markers and remotes on directories.
FsInit(kinds, remotes) ==
    /\ dirs \in { ds \in SUBSET Universe :
                    /\ W \in ds
                    /\ \A p \in ds : Len(p) > 1 => Front(p) \in ds }
    /\ \E L \in SUBSET (Universe \ dirs) :
          /\ Cardinality(L) <= MaxLinks
          /\ \A l \in L : Front(l) \in dirs
          /\ links \in [L -> dirs]
    /\ vcsAt \in { f \in [dirs -> {NoVcs} \cup kinds] :
                     Cardinality({ d \in dirs : f[d] # NoVcs }) <= MaxRepos }
    /\ remoteAt \in { f \in [dirs -> remotes] :
                        \A d \in dirs : vcsAt[d] = NoVcs => f[d] = "none" }

NoScan == [done |-> FALSE, root |-> NoPath, depth |-> NoDepth, result |-> <<>>]
NoOp == [op |-> "none", repo |-> NoRepo, ok |-> TRUE]

Idle ==
    /\ cacheFile = Absent
    /\ cache = Absent
    /\ root = NoPath
    /\ pc = "idle"
    /\ cmd = [name |-> "none"]
    /\ outcome = "none"
    /\ log = <<>>
    /\ fileAtStart = Absent
    /\ scan = NoScan
    /\ lastOp = NoOp
    /\ prev = Absent

----------------------------------------------------------------------------
\* The scanner alone: collect_repositories over every tree of the model.

InitScan ==
    /\ FsInit({"git"}, {"none"})
    /\ config \in { [root_dir |-> W, include_dirs |-> <<W>>, exclude_patterns |-> ex] :
                      ex \in ExcludeSets }
    /\ Idle

CollectRepositories(rt, depth, ord) ==
    /\ ~scan.done
    /\ scan' = [done |-> TRUE, root |-> rt, depth |-> depth,
                result |-> collect_repositories(rt, depth, config.exclude_patterns, ord)]
    /\ UNCHANGED <<fsVars, config, cacheFile, cache, root, pc, cmd, outcome,
                   log, fileAtStart, lastOp, prev>>

NextScan ==
    \E rt \in Universe, depth \in Depths, ord \in Orders :
        CollectRepositories(rt, depth, ord)

SpecScan == InitScan /\ [][NextScan]_vars

----------------------------------------------------------------------------
\* The workspace: its operations on the catalog, as the commands call them,
\* and what happens to the tree between them.

\* The tree the workspace starts on: every directory of Universe, the
\* repositories RepoDirs, and the link LinkPath to one of them.
RepoDirs == { <<"w", "a">>, <<"w", "b">>, <<"w", "a", "a">> }
LinkPath == <<"w", "l">>
LinkTarget == <<"w", "a", "a">>
OddRepo == <<"w", "b">>
Repointed == <<"w", "a">>
AddPaths == Universe \cup {LinkPath}
ImportDepths == {NoDepth, 1}

Init ==
    /\ dirs = Universe
    /\ links = [l \in {LinkPath} |-> LinkTarget]
    /\ vcsAt = [d \in Universe |-> IF d \in RepoDirs THEN "git" ELSE NoVcs]
    /\ remoteAt \in { f \in [Universe -> {"none", "url1", "ioerr"}] :
                        /\ \A d \in Universe \ RepoDirs : f[d] = "none"
                        /\ \A d \in RepoDirs \ {OddRepo} : f[d] = "url1" }
    /\ config \in { [root_dir |-> W, include_dirs |-> <<W, <<"w", "a">>>>,
                     exclude_patterns |-> ex] : ex \in ExcludeSets }
    /\ Idle

\* AddCommand::run, one path: new_repository_from_path, then add_repository.
Add(p) ==
    LET got == new_repository_from_path(p)
    IN  /\ lastOp' = [op |-> "add", repo |-> got.repo, ok |-> got.tag # "err"]
        /\ prev' = cache
        /\ cache' = IF got.tag = "some" THEN add_repository(cache, got.repo) ELSE cache
        /\ scan' = NoScan
        /\ UNCHANGED <<fsVars, config, cacheFile, root, pc, cmd, outcome, log, fileAtStart>>

\* Workspace::import_repositories.
Import(rt, depth, ord) ==
    LET paths == collect_repositories(rt, depth, config.exclude_patterns, ord)
        r == ImportFrom(paths, 1, cache)
    IN  /\ lastOp' = [op |-> "import", repo |-> NoRepo, ok |-> r.ok]
        /\ prev' = cache
        /\ cache' = r.cache
        /\ scan' = [done |-> TRUE, root |-> NoPath, depth |-> NoDepth, result |-> paths]
        /\ UNCHANGED <<fsVars, config, cacheFile, root, pc, cmd, outcome, log, fileAtStart>>

\* Workspace::drop_invalid_repositories.
DropInvalid ==
    /\ lastOp' = [op |-> "drop", repo |-> NoRepo, ok |-> TRUE]
    /\ prev' = cache
    /\ cache' = drop_invalid_repositories(cache)
    /\ scan' = NoScan
    /\ UNCHANGED <<fsVars, config, cacheFile, root, pc, cmd, outcome, log, fileAtStart>>

\* Workspace::sort_repositories.
Sort ==
    /\ lastOp' = [op |-> "sort", repo |-> NoRepo, ok |-> TRUE]
    /\ prev' = cache
    /\ cache' = sort_repositories(cache)
    /\ scan' = NoScan
    /\ UNCHANGED <<fsVars, config, cacheFile, root, pc, cmd, outcome, log, fileAtStart>>

\* The user deletes a directory that holds no directory or link.
Remove(d) ==
    /\ d \in dirs /\ d # W
    /\ \A q \in dirs \cup DOMAIN links : Front(q) # d
    /\ dirs' = dirs \ {d}
    /\ vcsAt' = [x \in dirs \ {d} |-> vcsAt[x]]
    /\ remoteAt' = [x \in dirs \ {d} |-> remoteAt[x]]
    /\ lastOp' = NoOp
    /\ prev' = Absent
    /\ scan' = NoScan
    /\ UNCHANGED <<links, config, cacheFile, cache, root, pc, cmd, outcome, log, fileAtStart>>

\* The user points a repository's remote to another URL.
SetRemote(d) ==
    /\ d \in dirs /\ vcsAt[d] # NoVcs /\ remoteAt[d] = "url1"
    /\ remoteAt' = [remoteAt EXCEPT ![d] = "url2"]
    /\ lastOp' = NoOp
    /\ prev' = Absent
    /\ scan' = NoScan
    /\ UNCHANGED <<dirs, links, vcsAt, config, cacheFile, cache, root, pc, cmd, outcome,
                   log, fileAtStart>>

Next ==
    \/ \E p \in AddPaths : Add(p)
    \/ \E i \in DOMAIN config.include_dirs, depth \in ImportDepths, ord \in Orders :
          Import(config.include_dirs[i], depth, ord)
    \/ DropInvalid
    \/ Sort
    \/ \E d \in RepoDirs : Remove(d)
    \/ SetRemote(Repointed)

Spec == Init /\ [][Next]_vars

----------------------------------------------------------------------------
\* The commands of src/rhq/main.rs, step by step.

\* Query (its source is not part of the tree): an optional host and a path.
NoHost == "none"
Queries == { [host |-> h, path |-> <<"user", "repo">>] : h \in {NoHost, "gitlab.com"} }
NoQuery == [host |-> NoHost, path |-> NoPath]

\* Query::to_url: https://{host}/{path}, or git@{host}:{path} with --ssh.
to_url(q, ssh) ==
    IF q.host = NoHost
    THEN (IF ssh THEN "git@github.com:user/repo" ELSE "https://github.com/user/repo")
    ELSE (IF ssh THEN "git@gitlab.com:user/repo" ELSE "https://gitlab.com/user/repo")

\* resolve_query that asks the configuration first.
resolve_query_config_first(rt, q) ==
    LET r == IF config.root_dir # NoPath THEN config.root_dir ELSE rt
    IN  IF r = NoPath THEN [ok |-> FALSE, path |-> NoPath]
        ELSE [ok |-> TRUE,
              path |-> r \o <<IF q.host = NoHost THEN "github.com" ELSE q.host>> \o q.path]

\* Workspace::resolve_query, rt being Workspace.root.
resolve_query(rt, q) ==
    LET r == IF rt # NoPath THEN rt ELSE config.root_dir
        host == IF q.host = NoHost THEN "github.com" ELSE q.host
    IN  IF r = NoPath THEN [ok |-> FALSE, path |-> NoPath]
        ELSE [ok |-> TRUE, path |-> r \o <<host>> \o q.path]

\* Cache::dump (its source is not part of the tree): the cache file becomes
\* what the cache holds.
dump(c) == c

\* The directories fs::create_dir_all(path) leaves behind.
Prefixes(p) == { SubSeq(p, 1, k) : k \in 1..Len(p) }

NoCmd == [name |-> "none", todo |-> <<>>, depth |-> NoDepth, sort |-> FALSE,
          vcs |-> NoVcs, hook |-> FALSE, query |-> NoQuery, ssh |-> FALSE,
          given |-> NoPath, dest |-> NoPath]

Begin(c) ==
    /\ pc = "idle"
    /\ cmd' = c
    /\ cache' = cacheFile
    /\ fileAtStart' = cacheFile
    /\ log' = <<>>
    /\ outcome' = "running"

End(how) ==
    /\ pc' = "done"
    /\ outcome' = how

\* The tree after a VCS has made a repository at path p.
Created(p, v, rem) ==
    /\ dirs' = dirs \cup Prefixes(p)
    /\ vcsAt' = [d \in dirs \cup Prefixes(p) |->
                    IF d = p THEN v ELSE IF d \in dirs THEN vcsAt[d] ELSE NoVcs]
    /\ remoteAt' = [d \in dirs \cup Prefixes(p) |->
                       IF d = p THEN rem ELSE IF d \in dirs THEN remoteAt[d] ELSE "none"]
    /\ UNCHANGED links

cliFrame == <<config, scan, lastOp, prev>>

\* AddCommand::run up to the loop.
StartAdd(paths) ==
    /\ Begin([NoCmd EXCEPT !.name = "add", !.todo = paths])
    /\ pc' = "add"
    /\ root' = NoPath
    /\ UNCHANGED <<fsVars, cacheFile, cliFrame>>

\* AddStep that saves the cache after every add_repository.
AddStepSavingEach ==
    /\ pc = "add"
    /\ LET got == new_repository_from_path(Head(cmd.todo))
       IN  /\ cmd' = [cmd EXCEPT !.todo = Tail(cmd.todo)]
           /\ IF got.tag = "err"
              THEN End("failed") /\ UNCHANGED <<cache, log, cacheFile>>
              ELSE /\ pc' = IF Tail(cmd.todo) = <<>> THEN "save" ELSE "add"
                   /\ outcome' = outcome
                   /\ IF got.tag = "some"
                      THEN /\ cache' = add_repository(cache, got.repo)
                           /\ cacheFile' = dump(add_repository(cache, got.repo))
                           /\ log' = log \o <<"add_repository", "save_cache">>
                      ELSE UNCHANGED <<cache, log, cacheFile>>
    /\ UNCHANGED <<fsVars, root, fileAtStart, cliFrame>>

\* AddCommand::run, one turn of the loop.
AddStep ==
    /\ pc = "add"
    /\ LET got == new_repository_from_path(Head(cmd.todo))
       IN  /\ cmd' = [cmd EXCEPT !.todo = Tail(cmd.todo)]
           /\ IF got.tag = "err"
              THEN End("failed") /\ UNCHANGED <<cache, log>>
              ELSE /\ pc' = IF Tail(cmd.todo) = <<>> THEN "save" ELSE "add"
                   /\ outcome' = outcome
                   /\ IF got.tag = "some"
                      THEN /\ cache' = add_repository(cache, got.repo)
                           /\ log' = Append(log, "add_repository")
                      ELSE UNCHANGED <<cache, log>>
    /\ UNCHANGED <<fsVars, cacheFile, root, fileAtStart, cliFrame>>

\* ImportCommand::run up to the loop; the roots are the configured
\* include_dirs.
StartImport(depth) ==
    /\ Begin([NoCmd EXCEPT !.name = "import", !.todo = config.include_dirs,
                           !.depth = depth])
    /\ pc' = IF config.include_dirs = <<>> THEN "save" ELSE "import"
    /\ root' = NoPath
    /\ UNCHANGED <<fsVars, cacheFile, cliFrame>>

\* ImportCommand::run, one turn of the loop.
ImportStep(ord) ==
    /\ pc = "import"
    /\ LET paths == collect_repositories(Head(cmd.todo), cmd.depth,
                                         config.exclude_patterns, ord)
           r == ImportFrom(paths, 1, cache)
       IN  /\ cmd' = [cmd EXCEPT !.todo = Tail(cmd.todo)]
           /\ cache' = r.cache
           /\ log' = IF r.cache # cache THEN Append(log, "add_repository") ELSE log
           /\ IF r.ok
              THEN /\ pc' = IF Tail(cmd.todo) = <<>> THEN "save" ELSE "import"
                   /\ outcome' = outcome
              ELSE End("failed")
    /\ UNCHANGED <<fsVars, cacheFile, root, fileAtStart, cliFrame>>

\* RefreshCommand::run up to sort_repositories.
StartRefresh(sort) ==
    /\ Begin([NoCmd EXCEPT !.name = "refresh", !.sort = sort])
    /\ pc' = "refresh"
    /\ root' = NoPath
    /\ UNCHANGED <<fsVars, cacheFile, cliFrame>>

RefreshStep ==
    /\ pc = "refresh"
    /\ cache' = IF cmd.sort THEN sort_repositories(drop_invalid_repositories(cache))
                ELSE drop_invalid_repositories(cache)
    /\ log' = IF cmd.sort
              THEN log \o <<"drop_invalid_repositories", "sort_repositories">>
              ELSE Append(log, "drop_invalid_repositories")
    /\ pc' = "save"
    /\ UNCHANGED <<fsVars, cacheFile, root, cmd, outcome, fileAtStart, cliFrame>>

\* Workspace::save_cache as the last statement of add, import, refresh, new
\* and clone.
SaveCache ==
    /\ pc = "save"
    /\ cacheFile' = dump(cache)
    /\ log' = Append(log, "save_cache")
    /\ End("ok")
    /\ UNCHANGED <<fsVars, cache, root, cmd, fileAtStart, cliFrame>>

\* NewCommand::run up to the detection of an existing repository.  The
\* argument is a path, or a query when q # NoQuery.
StartNew(q, path, v, hook) ==
    /\ Begin([NoCmd EXCEPT !.name = "new", !.query = q, !.given = path,
                           !.vcs = v, !.hook = hook,
                           !.dest = IF q # NoQuery THEN resolve_query(NoPath, q).path
                                    ELSE path])
    /\ root' = NoPath
    /\ pc' = IF q # NoQuery /\ ~resolve_query(NoPath, q).ok THEN "unresolved" ELSE "new"
    /\ UNCHANGED <<fsVars, cacheFile, cliFrame>>

\* A path was needed and no root is known: `?` leaves run.
ResolveFailed ==
    /\ pc = "unresolved"
    /\ End("failed")
    /\ UNCHANGED <<fsVars, cacheFile, cache, root, cmd, log, fileAtStart, cliFrame>>

\* NewCommand::run from the detection on: do_init, Repository::new, the
\* post hook, add_repository.  `init` is whether the VCS command succeeds
\* (for pijul: vcs/pijul.rs init; the empty directories a failed init may
\* leave behind hold no marker and are not kept in the tree), hookOk whether
\* the hook does.
NewStep(init, hookOk) ==
    /\ pc = "new"
    /\ IF detect_from_path(cmd.dest) # NoVcs
       THEN End("existed") /\ UNCHANGED <<fsVars, cache, log>>
       ELSE IF ~init
       THEN End("failed") /\ UNCHANGED <<fsVars, cache, log>>
       ELSE /\ Cardinality({ d \in dirs : vcsAt[d] # NoVcs }) < MaxCliRepos
            /\ Created(cmd.dest, cmd.vcs, "none")
            /\ IF cmd.hook /\ ~hookOk
               THEN End("failed") /\ UNCHANGED <<cache, log>>
               ELSE /\ cache' = add_repository(cache,
                                   [path |-> cmd.dest, vcs |-> cmd.vcs, remote |-> "none"])
                    /\ log' = Append(log, "add_repository")
                    /\ pc' = "save"
                    /\ outcome' = outcome
    /\ UNCHANGED <<cacheFile, root, cmd, fileAtStart, cliFrame>>

\* CloneCommand::run up to the detection of an existing repository.
StartClone(q, dest, rt, ssh, v) ==
    /\ Begin([NoCmd EXCEPT !.name = "clone", !.query = q, !.given = dest,
                           !.vcs = v, !.ssh = ssh,
                           !.dest = IF dest # NoPath THEN dest
                                    ELSE resolve_query(rt, q).path])
    /\ root' = rt
    /\ pc' = IF dest = NoPath /\ ~resolve_query(rt, q).ok THEN "unresolved" ELSE "clone"
    /\ UNCHANGED <<fsVars, cacheFile, cliFrame>>

\* CloneCommand::run from the detection on: do_clone (for pijul:
\* vcs/pijul.rs clone), Repository::new, add_repository.
CloneStep(cloned) ==
    /\ pc = "clone"
    /\ IF detect_from_path(cmd.dest) # NoVcs
       THEN End("existed") /\ UNCHANGED <<fsVars, cache, log>>
       ELSE IF ~cloned
       THEN End("failed") /\ UNCHANGED <<fsVars, cache, log>>
       ELSE /\ Cardinality({ d \in dirs : vcsAt[d] # NoVcs }) < MaxCliRepos
            /\ Created(cmd.dest, cmd.vcs, to_url(cmd.query, cmd.ssh))
            /\ cache' = add_repository(cache,
                           [path |-> cmd.dest, vcs |-> cmd.vcs,
                            remote |-> to_url(cmd.query, cmd.ssh)])
            /\ log' = Append(log, "add_repository")
            /\ pc' = "save"
            /\ outcome' = outcome
    /\ UNCHANGED <<cacheFile, root, cmd, fileAtStart, cliFrame>>

\* repositories that gives an empty list when the cache has not been created.
repositories_or_empty(c) == [some |-> TRUE, list |-> get_opt(c).repositories]

\* Workspace::repositories: None when the cache has not been created.
repositories(c) == [some |-> get_opt(c).exists, list |-> get_opt(c).repositories]

\* ListCommand::run and ForeachCommand::run: Workspace::for_each_repo.  The
\* closure of list never fails; that of foreach fails when the command does.
ForEachRepo(nm, fails) ==
    /\ pc = "idle"
    /\ cmd' = [NoCmd EXCEPT !.name = nm]
    /\ cache' = cacheFile
    /\ fileAtStart' = cacheFile
    /\ root' = NoPath
    /\ pc' = "done"
    /\ LET repos == repositories(cacheFile)
       IN  IF ~repos.some
           THEN outcome' = "failed" /\ log' = <<>>
           ELSE IF nm = "foreach" /\ fails /\ repos.list # <<>>
           THEN outcome' = "failed" /\ log' = <<"f">>
           ELSE outcome' = "ok" /\ log' = [i \in DOMAIN repos.list |-> "f"]
    /\ UNCHANGED <<fsVars, cacheFile, cliFrame>>

\* The process exits: the workspace is gone, the tree and the cache file stay.
Exit ==
    /\ pc = "done"
    /\ pc' = "idle"
    /\ cmd' = NoCmd
    /\ cache' = Absent
    /\ root' = NoPath
    /\ outcome' = "none"
    /\ log' = <<>>
    /\ fileAtStart' = Absent
    /\ UNCHANGED <<fsVars, cacheFile, cliFrame>>

CliDirs == { W, <<"w", "a">>, <<"w", "b">> }

InitCli ==
    /\ dirs = CliDirs
    /\ links = [l \in {} |-> W]
    /\ vcsAt = [d \in CliDirs |-> IF d = W THEN NoVcs ELSE "git"]
    /\ remoteAt \in { f \in [CliDirs -> {"none", "url1", "ioerr"}] :
                        f[W] = "none" /\ f[<<"w", "a">>] = "url1" }
    /\ config \in { [root_dir |-> rd, include_dirs |-> <<W>>, exclude_patterns |-> {}] :
                      rd \in {NoPath, W} }
    /\ Idle

NextCli ==
    \/ \E paths \in { <<p>> : p \in CliDirs } \cup
                    { <<p, q>> : p, q \in CliDirs \ {W} } : StartAdd(paths)
    \/ AddStep
    \/ \E depth \in Depths : StartImport(depth)
    \/ \E ord \in Orders : ImportStep(ord)
    \/ \E sort \in BOOLEAN : StartRefresh(sort)
    \/ RefreshStep
    \/ \E q \in Queries, v \in VcsKinds, hook \in BOOLEAN : StartNew(q, NoPath, v, hook)
    \/ \E path \in { <<"w", "n">>, <<"w", "a">> }, v \in VcsKinds, hook \in BOOLEAN :
          StartNew(NoQuery, path, v, hook)
    \/ ResolveFailed
    \/ \E init \in BOOLEAN, hookOk \in BOOLEAN :
          NewStep(init, hookOk)
    \/ \E q \in Queries, dest \in {NoPath, <<"w", "c">>}, rt \in {NoPath, <<"r">>},
          ssh \in BOOLEAN : StartClone(q, dest, rt, ssh, "git")
    \/ \E cloned \in BOOLEAN : CloneStep(cloned)
    \/ SaveCache
    \/ \E nm \in {"list", "foreach"}, fails \in BOOLEAN : ForEachRepo(nm, fails)
    \/ Exit

SpecCli == InitCli /\ [][NextCli]_vars

----------------------------------------------------------------------------
\* Properties of the catalog.

PathsOf(repos) == [i \in DOMAIN repos |-> repos[i].path]
EntriesAt(repos, p) == { i \in DOMAIN repos : repos[i].path = p }
Range(f) == { f[i] : i \in DOMAIN f }
PosIn(repos, r) == CHOOSE k \in DOMAIN repos : repos[k] = r

\* C1: the catalog never holds two entries of one local path, and right after
\* add_repository(R) the one entry of R's path is R itself.
C1_OneEntryPerPath ==
    /\ \A i, j \in DOMAIN cache.repositories :
          i # j => cache.repositories[i].path # cache.repositories[j].path
    /\ (lastOp.op = "add" /\ lastOp.repo # NoRepo) =>
          /\ Cardinality(EntriesAt(cache.repositories, lastOp.repo.path)) = 1
          /\ \A i \in EntriesAt(cache.repositories, lastOp.repo.path) :
                cache.repositories[i] = lastOp.repo

\* add_repository has replaced an entry of the same path and other fields, in
\* a catalog of several entries.
C1_Witness ==
    /\ lastOp.op = "add" /\ lastOp.repo # NoRepo
    /\ Len(prev.repositories) >= 2
    /\ Len(cache.repositories) = Len(prev.repositories)
    /\ \E i \in DOMAIN prev.repositories :
          /\ prev.repositories[i].path = lastOp.repo.path
          /\ prev.repositories[i] # lastOp.repo

\* What drop_invalid_repositories is to keep: the path still holds a VCS
\* marker and no exclude pattern matches it.
StillValid(p) ==
    /\ detect_from_path(p) # NoVcs
    /\ \A ex \in config.exclude_patterns : ~Matches(ex, p)

\* C2: right after drop_invalid_repositories the paths of the catalog are the
\* paths it held before, in their order, less exactly those that no longer
\* validate or that an exclude pattern matches.
C2_RefreshDropsExactly ==
    lastOp.op = "drop" =>
        PathsOf(cache.repositories) = SelectSeq(PathsOf(prev.repositories), StillValid)

\* Of three entries the middle one, deleted from disk, has been dropped.
C2_Witness ==
    /\ lastOp.op = "drop"
    /\ Len(prev.repositories) = 3
    /\ Canonicalize(prev.repositories[2].path) = NoPath
    /\ PathsOf(cache.repositories) =
          <<prev.repositories[1].path, prev.repositories[3].path>>

C5_ImportAddsEveryRepository ==
    (lastOp.op = "import" /\ lastOp.ok) =>
        \A i \in DOMAIN scan.result :
            detect_from_path(scan.result[i]) # NoVcs =>
                EntriesAt(cache.repositories, Canonicalize(scan.result[i])) # {}

\* C8: add and import do not fail on a path whose probe fails, and import
\* still adds every collected path whose remote can be read.
C8_ProbeErrorIsSkipped ==
    /\ lastOp.op \in {"add", "import"} => lastOp.ok
    /\ lastOp.op = "import" =>
          \A i \in DOMAIN scan.result :
              get_remote_url(scan.result[i]) \in {"url1", "url2"} =>
                  EntriesAt(cache.repositories, Canonicalize(scan.result[i])) # {}

----------------------------------------------------------------------------
\* Properties of the scanner.

Returned == Range(scan.result)

\* C3: no returned path has its parent directory among the returned paths.
C3_NoResultInsideResult ==
    scan.done => \A p \in Returned : Front(p) \notin Returned

\* A repository lies directly inside a returned repository, within the depth
\* of the scan.
C3_Witness ==
    /\ scan.done /\ scan.depth = NoDepth
    /\ \E p \in Returned : \E n \in Names :
          detect_from_path(p \o <<n>>) # NoVcs

\* p lies below q, at any depth.
IsUnder(p, q) == Len(q) < Len(p) /\ SubSeq(p, 1, Len(q)) = q

\* C11: no returned path lies below another returned path at any depth, the
\* scan root included, and no returned path lies below a path of the walk
\* that holds a VCS marker.
C11_NoResultBelowResult ==
    scan.done =>
        /\ \A p \in Returned : \A q \in Returned : ~IsUnder(p, q)
        /\ \A p \in Returned : \A k \in Len(scan.root)..(Len(p) - 1) :
              detect_from_path(SubSeq(p, 1, k)) = NoVcs

\* The scan root is a repository and is returned, and a repository that no
\* pattern shuts out lies two levels below it, within the depth of the scan.
C11_Witness ==
    /\ scan.done /\ scan.depth = NoDepth
    /\ config.exclude_patterns = {}
    /\ scan.root \in Returned
    /\ \E d \in dirs :
          /\ Len(d) = Len(scan.root) + 2 /\ IsUnder(d, scan.root)
          /\ vcsAt[d] # NoVcs

\* C4 as claimed: no returned path other than the scan root matches an
\* exclude pattern, and the scan root is returned whenever it is a repository.
C4_NoExcludedPathReturned ==
    scan.done =>
        /\ \A p \in Returned \ {scan.root} :
              \A ex \in config.exclude_patterns : ~Matches(ex, p)
        /\ detect_from_path(scan.root) # NoVcs => scan.root \in Returned

\* C4 as amended: no returned path other than the scan root has a
\* canonicalized path that an exclude pattern matches, and the scan root is
\* returned whenever it is a repository.
C4_NoExcludedCanonicalPathReturned ==
    scan.done =>
        /\ \A p \in Returned \ {scan.root} :
              \A ex \in config.exclude_patterns : ~Matches(ex, Canonicalize(p))
        /\ detect_from_path(scan.root) # NoVcs => scan.root \in Returned

\* A repository directly inside the scan root is left out because a pattern
\* matches it, while another path is returned.
C4_Witness ==
    /\ scan.done /\ scan.depth = NoDepth
    /\ Returned # {}
    /\ \E d \in dirs :
          /\ Len(d) > 1 /\ Front(d) = scan.root /\ vcsAt[d] # NoVcs
          /\ \E ex \in config.exclude_patterns : Matches(ex, d)
          /\ d \notin Returned

----------------------------------------------------------------------------
\* Properties of the commands.

Calls(what) == { i \in DOMAIN log : log[i] = what }

\* C6: a command that needs resolve_query holds the path root/host/path,
\* root being the root given with --root if there is one and else the
\* configured one, host being the query's host or github.com; with neither
\* root it holds no path and fails.
C6_ResolveQuery ==
    (pc \in {"new", "clone", "unresolved"} /\ cmd.given = NoPath) =>
        LET r == IF root # NoPath THEN root ELSE config.root_dir
        IN  IF r = NoPath
            THEN pc = "unresolved" /\ cmd.dest = NoPath
            ELSE /\ pc # "unresolved"
                 /\ cmd.dest = r \o <<IF cmd.query.host = NoHost THEN "github.com"
                                      ELSE cmd.query.host>> \o cmd.query.path

\* clone resolves user/repo with both a --root and a configured root.
C6_Witness ==
    /\ pc = "clone" /\ cmd.given = NoPath
    /\ root = <<"r">> /\ config.root_dir = W
    /\ cmd.query.host = NoHost
    /\ cmd.dest = <<"r", "github.com", "user", "repo">>

\* C7 as claimed: with no cache file, list and foreach end without error,
\* having visited no repository.
C7_AbsentCacheReadsEmpty ==
    (pc = "done" /\ cmd.name \in {"list", "foreach"} /\ ~fileAtStart.exists) =>
        outcome = "ok" /\ log = <<>>

\* C7 as amended: with no cache file, list and foreach fail, having visited
\* no repository; refresh ends without error and leaves an empty catalog; and
\* add, new and clone hold in their catalog only what they added themselves.
C7_AbsentCacheFailsForEach ==
    /\ (pc = "done" /\ cmd.name \in {"list", "foreach"} /\ ~fileAtStart.exists) =>
          outcome = "failed" /\ log = <<>>
    /\ (pc = "done" /\ cmd.name = "refresh" /\ ~fileAtStart.exists) =>
          outcome = "ok" /\ cacheFile = Loaded(<<>>)
    /\ (pc # "idle" /\ cmd.name \in {"add", "new", "clone"} /\ ~fileAtStart.exists) =>
          Len(cache.repositories) <= Cardinality(Calls("add_repository"))

\* list has run without a cache file.
C7_Witness ==
    /\ pc = "done" /\ cmd.name = "list"
    /\ ~fileAtStart.exists
    /\ outcome = "failed"

\* C10: a command calls save_cache at most once and as its last call, ending
\* without error; until then the cache file is what it was when the command
\* started, and a command that fails or finds its target to be a repository
\* already never calls it.
C10_SaveIsLastAndOnlyOnSuccess ==
    /\ Cardinality(Calls("save_cache")) <= 1
    /\ Calls("save_cache") # {} =>
          log[Len(log)] = "save_cache" /\ pc = "done" /\ outcome = "ok"
    /\ (pc # "idle" /\ Calls("save_cache") = {}) => cacheFile = fileAtStart
    /\ (pc = "done" /\ outcome \in {"failed", "existed"}) => Calls("save_cache") = {}

\* add has changed its catalog and then failed on a later path.
C10_Witness ==
    /\ pc = "done" /\ cmd.name = "add" /\ outcome = "failed"
    /\ Calls("add_repository") # {}
    /\ cache # fileAtStart
    /\ cacheFile = fileAtStart

====
